---------------------------- MODULE Spec2Model ----------------------------
(***************************************************************************)
(* A model of the OCS server of sodafoundation/contexture (pkg/ocs):       *)
(*   - ExtractAdjacencyList   (istio_connector.go)                         *)
(*   - MongoDBRepository      (mongodb.go): SaveAdjacencyList,             *)
(*                            GetLatestAdjacencyList                       *)
(*   - buildContextDefinitions / buildTopology (handlers.go)               *)
(*   - the two HTTP handlers  (handlers.go): collect_istio_metrics and     *)
(*                            get_ocs_prompt                               *)
(*                                                                         *)
(* Go values are represented as follows.                                   *)
(*   map[string]T        a function whose DOMAIN is a finite set of        *)
(*                       strings; indexing a missing key yields the zero   *)
(*                       value of T (Lookup).                              *)
(*   []T                 a sequence.                                       *)
(*   a nil map/pointer   the empty sequence <<>>, and <<v>> for the value v *)
(*                       (where nil and a value must be told apart).       *)
(*   `for k := range m`  an iteration order chosen nondeterministically    *)
(*                       among the orders of m's keys.                     *)
(*                                                                         *)
(* Eight specifications share the variables:                               *)
(*   SpecExtract    ExtractAdjacencyList applied to every result set       *)
(*   SpecAssemble   buildContextDefinitions applied to every adjacency     *)
(*                  list and workload configuration                        *)
(*   SpecSave       SaveAdjacencyList applied to every adjacency list      *)
(*   SpecRepo       sequences of SaveAdjacencyList / GetLatestAdjacencyList*)
(*   Spec           the server: sequences of the two handlers              *)
(*   SpecCollect    concurrent collect requests, their steps interleaved   *)
(*   SpecQuery      QueryMetrics called with any arguments, and the        *)
(*                  collect handler                                        *)
(*   SpecConvert    convertRangeToInstantResult applied to every ranged    *)
(*                  response                                               *)
(* In SpecCollect results, adjacencyList and pc are functions of the       *)
(* request; in SpecQuery results records the last call of QueryMetrics.    *)
(***************************************************************************)
EXTENDS Integers, Sequences, FiniteSets, TLC

VARIABLES
    config,              \* Server.ocsConfig (static after NewServer)
    store,               \* the workload_adjacency collection, in insertion order
    now,                 \* the wall clock, in BSON DateTime units (milliseconds)
    last,                \* the last request served and what happened while serving it
    results,             \* a PrometheusQueryResult's Data.Result
    adjacencyList,       \* a map[string][]string handed to a function under test
    contextDefinitions,  \* the []OCSContextDefinition built from it
    pc                   \* "start" before the function under test ran, "done" after

vars == <<config, store, now, last, results, adjacencyList, contextDefinitions, pc>>

(***************************************************************************)
(* Bounds of the model.                                                    *)
(***************************************************************************)
MaxResults == 3      \* entries of a result set handed to ExtractAdjacencyList
MaxEdges   == 3      \* destination entries, over all sources, of an adjacency list
MaxStore   == 2      \* documents in the collection
MaxClock   == 2      \* readings of the wall clock
IntBits    == 8      \* the width the model gives Go's int64 (two's complement)
MaxProcs   == 2      \* collect requests served concurrently
MaxSeries  == 3      \* series of a ranged response

(***************************************************************************)
(* Workload names ("opaque strings"). The empty string is a possible label *)
(* value but not a workload name.                                          *)
(***************************************************************************)
Workloads2 == {"a", "b"}
Workloads3 == {"a", "b", "c"}

SeqsUpTo(S, n) == UNION {[1..k -> S] : k \in 0..n}

Range(s) == {s[i] : i \in 1..Len(s)}

\* The orders in which `range` may visit the keys of a map.
Orders(S) == {o \in [1..Cardinality(S) -> S] : Range(o) = S}

\* Indexing a Go map: the zero value when the key is missing.
Lookup(m, k) == IF k \in DOMAIN m THEN m[k] ELSE ""

\* adjacencyList[source] of a map[string][]string: the nil slice when missing.
Destinations(adj, source) == IF source \in DOMAIN adj THEN adj[source] ELSE <<>>

(***************************************************************************)
(* ExtractAdjacencyList (istio_connector.go).                              *)
(***************************************************************************)
\* The label sets a result entry may carry: each of the two labels is absent,
\* present and empty, or present with a workload name.
LabelValues == Workloads2 \cup {""}

Metrics ==
    UNION {[L -> LabelValues] : L \in SUBSET {"source_workload", "destination_workload"}}

ResultSets == SeqsUpTo(Metrics, MaxResults)

\* A slip that tests the source label alone.
HasSourceLabelOnly(source, destination) == source # ""

\* if source != "" && destination != ""
HasBothLabels(source, destination) == source # "" /\ destination # ""

\* A slip that never finds the destination in the list.
DestinationExistsNever(dests, destination) == FALSE

\* the loop that sets `exists`
DestinationExists(dests, destination) ==
    \E i \in 1..Len(dests) : dests[i] = destination

\* the body of the `if source != "" && destination != ""` branch
AddEdge(adj, source, destination) ==
    LET dests == Destinations(adj, source)
    IN  [s \in DOMAIN adj \cup {source} |->
            IF s = source
            THEN IF DestinationExists(dests, destination)
                 THEN dests
                 ELSE Append(dests, destination)
            ELSE adj[s]]

RECURSIVE ExtractFrom(_, _)
ExtractFrom(rs, adj) ==
    IF rs = <<>> THEN adj
    ELSE LET r           == Head(rs)
             source      == Lookup(r, "source_workload")
             destination == Lookup(r, "destination_workload")
         IN  ExtractFrom(Tail(rs),
                         IF HasBothLabels(source, destination)
                         THEN AddEdge(adj, source, destination)
                         ELSE adj)

EmptyAdjacency == [s \in {} |-> <<>>]

ExtractAdjacencyList(result) == ExtractFrom(result, EmptyAdjacency)

(***************************************************************************)
(* SpecExtract: ExtractAdjacencyList on every result set.                  *)
(***************************************************************************)
Idle == [kind |-> "none"]

\* A configuration for the specifications that do not read it.
NoConfig == [Workload |-> <<>>, Metrics |-> <<>>, Policy |-> <<>>, TimeWindowMinutes |-> <<>>]

InitExtract ==
    /\ results \in ResultSets
    /\ adjacencyList = EmptyAdjacency
    /\ pc = "start"
    /\ config = NoConfig /\ store = <<>> /\ now = 0 /\ last = Idle
    /\ contextDefinitions = <<>>

Extract ==
    /\ pc = "start"
    /\ adjacencyList' = ExtractAdjacencyList(results)
    /\ pc' = "done"
    /\ UNCHANGED <<config, store, now, last, results, contextDefinitions>>

NextExtract == Extract

SpecExtract == InitExtract /\ [][NextExtract]_vars

(***************************************************************************)
(* C4: for every result set, no source of the extracted mapping lists the  *)
(* same destination twice.                                                 *)
(***************************************************************************)
NoDuplicates(s) == \A i, j \in 1..Len(s) : s[i] = s[j] => i = j

C4_ExtractNoDuplicateDestinations ==
    pc = "done" =>
        \A source \in DOMAIN adjacencyList : NoDuplicates(adjacencyList[source])

\* An entry carries a label when the label is present with a non-empty value
\* (the metrics backend treats an empty label value as the label being absent).
Carries(m, label, v) == label \in DOMAIN m /\ m[label] = v /\ v # ""

\* A result set that repeats a (source, destination) pair and also names a second
\* destination of the same source has been extracted.
C4_Witness ==
    /\ pc = "done"
    /\ \E i, j \in 1..Len(results) :
          /\ i < j
          /\ results[i] = results[j]
          /\ \E s, d \in Workloads2 :
                /\ Carries(results[i], "source_workload", s)
                /\ Carries(results[i], "destination_workload", d)
                /\ Len(adjacencyList[s]) = 2

(***************************************************************************)
(* C10: the extracted mapping holds the edge (s, d) exactly when some      *)
(* entry of the result set carries both the source_workload label s and    *)
(* the destination_workload label d; an entry missing either label adds    *)
(* neither an edge nor a source key, so every source key has a destination.*)
(* The extraction ends for every result set (it has no error result).      *)
(***************************************************************************)
HasEdge(adj, s, d) == s \in DOMAIN adj /\ d \in Range(adj[s])

EntryWithBoth(rs, s, d) ==
    \E i \in 1..Len(rs) :
        /\ Carries(rs[i], "source_workload", s)
        /\ Carries(rs[i], "destination_workload", d)

C10_ExtractEdgeIffEntryWithBothLabels ==
    pc = "done" =>
        /\ \A s, d \in LabelValues :
              HasEdge(adjacencyList, s, d) <=> EntryWithBoth(results, s, d)
        /\ \A s \in DOMAIN adjacencyList :
              /\ s \in Workloads2
              /\ adjacencyList[s] # <<>>
              /\ Range(adjacencyList[s]) \subseteq Workloads2

\* A result set with an entry that lacks a label, an entry whose label is empty
\* and an entry with both labels has been extracted.
C10_Witness ==
    /\ pc = "done"
    /\ \E i, j, k \in 1..Len(results) :
          /\ "destination_workload" \notin DOMAIN results[i]
          /\ "source_workload" \in DOMAIN results[i]
          /\ results[i]["source_workload"] # ""
          /\ "source_workload" \in DOMAIN results[j]
          /\ results[j]["source_workload"] = ""
          /\ \E s, d \in Workloads2 :
                /\ Carries(results[k], "source_workload", s)
                /\ Carries(results[k], "destination_workload", d)
                /\ HasEdge(adjacencyList, s, d)
    /\ Cardinality(DOMAIN adjacencyList) = 1

(***************************************************************************)
(* buildContextDefinitions and buildTopology (handlers.go).                *)
(***************************************************************************)
\* The adjacency lists over the workloads W with at most n destination entries in
\* all: any set of sources, each with a list that may be empty or repeat a name.
RECURSIVE AdjacencyListsOver(_, _, _)
AdjacencyListsOver(S, W, n) ==
    IF S = {} THEN {EmptyAdjacency}
    ELSE LET s == CHOOSE x \in S : TRUE
         IN  UNION {{(s :> dests) @@ adj : adj \in AdjacencyListsOver(S \ {s}, W, n - Len(dests))} :
                        dests \in SeqsUpTo(W, n)}

AdjacencyLists(W, n) == UNION {AdjacencyListsOver(S, W, n) : S \in SUBSET W}

\* config.Metrics and config.Policy of the assembled configuration.
ConfigMetrics == <<[Name |-> "istio_requests_total", Type |-> "counter"]>>
ConfigPolicy  == <<"policy-1", "policy-2">>

\* The metric and policy lists a configuration may hold: the lists above, or none.
ConfigLists == {[Metrics |-> ConfigMetrics, Policy |-> ConfigPolicy],
                [Metrics |-> <<>>, Policy |-> <<>>]}

AssembleConfigs ==
    {[Workload |-> w, Metrics |-> l.Metrics, Policy |-> l.Policy,
      TimeWindowMinutes |-> <<>>] : w \in SeqsUpTo(Workloads3, 2), l \in ConfigLists}

\* A slip that collects the sources and the configured workloads only.
WorkloadSetSourcesOnly(adj, cfg) == DOMAIN adj \cup Range(cfg.Workload)

\* workloadSet after the two collecting loops
WorkloadSet(adj, cfg) ==
    DOMAIN adj \cup UNION {Range(adj[s]) : s \in DOMAIN adj} \cup Range(cfg.Workload)

\* A slip that drops the length test.
HasDependenciesExistsOnly(adj, workload) == workload \in DOMAIN adj

\* if destinations, exists := adjacencyList[workload]; exists && len(destinations) > 0
HasDependencies(adj, workload) ==
    workload \in DOMAIN adj /\ Len(adj[workload]) > 0

\* A slip that sets the field whatever the list holds.
HasDependentsAlways(reverseDeps) == TRUE

\* if len(reverseDeps) > 0
HasDependents(reverseDeps) == Len(reverseDeps) > 0

\* A slip that looks at the first destination only.
SourceMatchesFirstOnly(dests, workload, source) ==
    IF dests # <<>> /\ dests[1] = workload THEN <<source>> ELSE <<>>

\* the inner loop over one source's destinations: source is appended once for
\* every destination equal to workload
SourceMatches(dests, workload, source) ==
    [i \in 1..Len(SelectSeq(dests, LAMBDA d : d = workload)) |-> source]

\* A slip that leaves a workload out of its own dependents.
RECURSIVE ReverseDepsOthersOnly(_, _, _)
ReverseDepsOthersOnly(adj, workload, order) ==
    IF order = <<>> THEN <<>>
    ELSE (IF Head(order) = workload THEN <<>>
          ELSE SourceMatches(adj[Head(order)], workload, Head(order)))
            \o ReverseDepsOthersOnly(adj, workload, Tail(order))

\* the outer loop `for source, destinations := range adjacencyList`, visiting the
\* sources in `order`
RECURSIVE ReverseDeps(_, _, _)
ReverseDeps(adj, workload, order) ==
    IF order = <<>> THEN <<>>
    ELSE SourceMatches(adj[Head(order)], workload, Head(order))
            \o ReverseDeps(adj, workload, Tail(order))

\* buildTopology; the map[string]interface{} it returns is a function from the
\* keys it holds to the lists stored under them
buildTopology(adj, workload, order) ==
    LET reverseDeps == ReverseDeps(adj, workload, order)
        keys == (IF HasDependencies(adj, workload) THEN {"dependencies"} ELSE {})
                    \cup (IF HasDependents(reverseDeps) THEN {"dependents"} ELSE {})
    IN  [k \in keys |-> IF k = "dependencies" THEN adj[workload] ELSE reverseDeps]

\* A slip that gives the policy list to the configured workloads only.
ContextDefinitionPolicyIfConfigured(adj, cfg, workload, order) ==
    LET topology == buildTopology(adj, workload, order)
    IN  [ResourceID |-> <<"workload-", workload>>,
         Domain     |-> "compute.k8s",
         Identity   |-> [workload |-> workload],
         Metrics    |-> cfg.Metrics,
         Policy     |-> IF workload \in Range(cfg.Workload) THEN cfg.Policy ELSE <<>>,
         Topology   |-> IF Cardinality(DOMAIN topology) > 0 THEN <<topology>> ELSE <<>>]

\* the body of the loop `for workload := range workloadSet`; Topology stays nil
\* (<<>>) unless len(topology) > 0
ContextDefinition(adj, cfg, workload, order) ==
    LET topology == buildTopology(adj, workload, order)
    IN  [ResourceID |-> <<"workload-", workload>>,
         Domain     |-> "compute.k8s",
         Identity   |-> [workload |-> workload],
         Metrics    |-> cfg.Metrics,
         Policy     |-> cfg.Policy,
         Topology   |-> IF Cardinality(DOMAIN topology) > 0 THEN <<topology>> ELSE <<>>]

\* OCSContextDefinition.Topology carries `json:"topology,omitempty"`: the encoder
\* leaves the field out for a nil map and for a map without entries.
HasTopologyField(cd) == cd.Topology # <<>> /\ Cardinality(DOMAIN cd.Topology[1]) > 0

\* The topology map of a context definition, a nil map reading as an empty one.
TopologyOf(cd) == IF cd.Topology = <<>> THEN EmptyAdjacency ELSE cd.Topology[1]

\* The sources that name workload as a destination: range visits every source, and
\* only the relative order of these shows in reverseDeps.
SourcesNaming(adj, workload) == {s \in DOMAIN adj : workload \in Range(adj[s])}

\* The ways to give every workload of ws an order of the sources naming it.
RECURSIVE SourceOrders(_, _)
SourceOrders(adj, ws) ==
    IF ws = {} THEN {EmptyAdjacency}
    ELSE LET w == CHOOSE x \in ws : TRUE
         IN  {(w :> o) @@ f : o \in Orders(SourcesNaming(adj, w)),
                              f \in SourceOrders(adj, ws \ {w})}

\* The results buildContextDefinitions may return: the workloads in the order range
\* visits workloadSet, each with the order range visits the sources in buildTopology.
BuildContextDefinitions(adj, cfg) ==
    LET ws == WorkloadSet(adj, cfg)
    IN  {[i \in 1..Cardinality(ws) |-> ContextDefinition(adj, cfg, byWorkload[i], orders[byWorkload[i]])] :
            byWorkload \in Orders(ws),
            orders \in SourceOrders(adj, ws)}

(***************************************************************************)
(* SpecAssemble: buildContextDefinitions on every adjacency list and       *)
(* workload configuration.                                                 *)
(***************************************************************************)
InitAssemble ==
    /\ adjacencyList \in AdjacencyLists(Workloads3, MaxEdges)
    /\ config \in AssembleConfigs
    /\ contextDefinitions = <<>>
    /\ pc = "start"
    /\ results = <<>> /\ store = <<>> /\ now = 0 /\ last = Idle

Assemble ==
    /\ pc = "start"
    /\ contextDefinitions' \in BuildContextDefinitions(adjacencyList, config)
    /\ pc' = "done"
    /\ UNCHANGED <<config, store, now, last, results, adjacencyList>>

NextAssemble == Assemble

SpecAssemble == InitAssemble /\ [][NextAssemble]_vars

(***************************************************************************)
(* What the claims about the assembled list speak of, stated from the      *)
(* adjacency list alone.                                                   *)
(***************************************************************************)
WorkloadOf(cd) == cd.Identity.workload

DependenciesOf(w) == IF w \in DOMAIN adjacencyList THEN adjacencyList[w] ELSE <<>>

DependentsOf(w) ==
    {s \in DOMAIN adjacencyList :
        \E i \in 1..Len(adjacencyList[s]) : adjacencyList[s][i] = w}

UnionOfWorkloads ==
    {w \in Workloads3 :
        \/ \E i \in 1..Len(config.Workload) : config.Workload[i] = w
        \/ w \in DOMAIN adjacencyList
        \/ DependentsOf(w) # {}}

(***************************************************************************)
(* C6: the assembled list has exactly one context definition for every     *)
(* workload that is configured or occurs in the adjacency list as a source *)
(* or as a destination: none is missing, none is added, none is repeated.  *)
(***************************************************************************)
C6_OneDefinitionPerWorkloadOfUnion ==
    pc = "done" =>
        /\ {WorkloadOf(contextDefinitions[i]) : i \in 1..Len(contextDefinitions)}
              = UnionOfWorkloads
        /\ \A i, j \in 1..Len(contextDefinitions) :
              WorkloadOf(contextDefinitions[i]) = WorkloadOf(contextDefinitions[j]) => i = j

\* Assembled: a configured list that repeats a name, a workload both configured and
\* a source, and a workload that occurs only as a destination.
C6_Witness ==
    /\ pc = "done"
    /\ config.Workload = <<"a", "a">>
    /\ "a" \in DOMAIN adjacencyList
    /\ DOMAIN adjacencyList = {"a", "b"}
    /\ DependentsOf("c") # {}
    /\ Len(contextDefinitions) = 3

(***************************************************************************)
(* C7: the context definition of w has a dependencies field exactly when   *)
(* the adjacency list has an entry for w with at least one destination,    *)
(* and the field then equals adjacencyList[w]; otherwise the field is      *)
(* absent (not an empty list).                                             *)
(***************************************************************************)
C7_DependenciesIffNonEmptyEntry ==
    pc = "done" =>
        \A i \in 1..Len(contextDefinitions) :
            LET w    == WorkloadOf(contextDefinitions[i])
                topo == TopologyOf(contextDefinitions[i])
            IN  /\ "dependencies" \in DOMAIN topo <=> DependenciesOf(w) # <<>>
                /\ "dependencies" \in DOMAIN topo =>
                      /\ HasTopologyField(contextDefinitions[i])
                      /\ topo["dependencies"] = adjacencyList[w]

\* Assembled: a source with an empty destination list, a workload that is no source
\* and a source with two destinations.
C7_Witness ==
    /\ pc = "done"
    /\ "a" \in DOMAIN adjacencyList /\ adjacencyList["a"] = <<>>
    /\ "b" \in DOMAIN adjacencyList /\ adjacencyList["b"] = <<"c", "a">>
    /\ "c" \notin DOMAIN adjacencyList
    /\ \E i \in 1..Len(contextDefinitions) :
          /\ WorkloadOf(contextDefinitions[i]) = "b"
          /\ TopologyOf(contextDefinitions[i])["dependencies"] = <<"c", "a">>

(***************************************************************************)
(* C8: the dependents field of w's context definition holds exactly the    *)
(* sources s with w in adjacencyList[s], and is absent when there is none. *)
(***************************************************************************)
C8_DependentsAreTheSourcesNaming ==
    pc = "done" =>
        \A i \in 1..Len(contextDefinitions) :
            LET w    == WorkloadOf(contextDefinitions[i])
                topo == TopologyOf(contextDefinitions[i])
            IN  /\ "dependents" \in DOMAIN topo <=> DependentsOf(w) # {}
                /\ "dependents" \in DOMAIN topo =>
                      /\ HasTopologyField(contextDefinitions[i])
                      /\ Range(topo["dependents"]) = DependentsOf(w)

\* Assembled: a workload named by two sources (one of them not as its first
\* destination) and a workload named by none.
C8_Witness ==
    /\ pc = "done"
    /\ DependentsOf("c") = {"a", "b"}
    /\ adjacencyList["a"][1] # "c"
    /\ DependentsOf("b") = {}
    /\ \E i, j \in 1..Len(contextDefinitions) :
          /\ WorkloadOf(contextDefinitions[i]) = "c"
          /\ Len(TopologyOf(contextDefinitions[i])["dependents"]) = 2
          /\ WorkloadOf(contextDefinitions[j]) = "b"

(***************************************************************************)
(* C9: a context definition carries no topology field exactly when its     *)
(* workload has neither a dependency nor a dependent in the adjacency      *)
(* list; with an empty adjacency list every configured workload has a      *)
(* context definition, and none of them carries a topology field.          *)
(***************************************************************************)
C9_NoTopologyIffIsolated ==
    pc = "done" =>
        /\ \A i \in 1..Len(contextDefinitions) :
              LET w == WorkloadOf(contextDefinitions[i])
              IN  ~HasTopologyField(contextDefinitions[i])
                     <=> (DependenciesOf(w) = <<>> /\ DependentsOf(w) = {})
        /\ DOMAIN adjacencyList = {} =>
              /\ \A k \in 1..Len(config.Workload) :
                    \E i \in 1..Len(contextDefinitions) :
                        WorkloadOf(contextDefinitions[i]) = config.Workload[k]
              /\ \A i \in 1..Len(contextDefinitions) :
                    ~HasTopologyField(contextDefinitions[i])

\* Assembled: the empty adjacency list with two configured workloads.
C9_Witness ==
    /\ pc = "done"
    /\ DOMAIN adjacencyList = {}
    /\ config.Workload = <<"a", "b">>
    /\ Len(contextDefinitions) = 2
    /\ \A i \in 1..2 : contextDefinitions[i].Topology = <<>>


(***************************************************************************)
(* C16: every context definition of the assembled list, for its workload   *)
(* w, has resourceId "workload-" followed by w, domain "compute.k8s",      *)
(* identity {"workload": w}, and as metrics and policy the configuration's *)
(* full metric and policy lists: the same on every context definition,     *)
(* whatever w and the adjacency list are.                                  *)
(***************************************************************************)
C16_DefinitionFieldsFromWorkloadAndConfig ==
    pc = "done" =>
        /\ \A i \in 1..Len(contextDefinitions) :
              LET cd == contextDefinitions[i]
                  w  == cd.Identity.workload
              IN  /\ cd.ResourceID = <<"workload-", w>>
                  /\ cd.Domain = "compute.k8s"
                  /\ DOMAIN cd.Identity = {"workload"}
                  /\ w \in UnionOfWorkloads
                  /\ cd.Metrics = config.Metrics
                  /\ cd.Policy = config.Policy
        /\ \A i, j \in 1..Len(contextDefinitions) :
              /\ contextDefinitions[i].Metrics = contextDefinitions[j].Metrics
              /\ contextDefinitions[i].Policy = contextDefinitions[j].Policy

\* Assembled: a configured workload with dependencies, a workload that is not
\* configured and only named as a destination, and a configured isolated one, under
\* a configuration with metrics and policies.
C16_Witness ==
    /\ pc = "done"
    /\ config.Workload = <<"a", "c">>
    /\ config.Policy = ConfigPolicy /\ config.Metrics = ConfigMetrics
    /\ DOMAIN adjacencyList = {"a"}
    /\ adjacencyList["a"] = <<"b">>
    /\ Len(contextDefinitions) = 3

(***************************************************************************)
(* C20: in the assembled list dependencies and dependents are mutually     *)
(* consistent and closed: for all workloads a and b with a context         *)
(* definition, b is among the dependencies of a's definition exactly when  *)
(* a is among the dependents of b's, and every workload named in a         *)
(* dependencies or dependents field has a context definition of its own in *)
(* the same list.                                                          *)
(***************************************************************************)
\* The workloads listed under a key of a context definition's topology.
Named(cd, key) ==
    IF key \in DOMAIN TopologyOf(cd) THEN Range(TopologyOf(cd)[key]) ELSE {}

Assembled == {contextDefinitions[i] : i \in 1..Len(contextDefinitions)}

C20_DependenciesAndDependentsAgree ==
    pc = "done" =>
        /\ \A cda, cdb \in Assembled :
              WorkloadOf(cdb) \in Named(cda, "dependencies")
                  <=> WorkloadOf(cda) \in Named(cdb, "dependents")
        /\ \A cd \in Assembled :
              \A w \in Named(cd, "dependencies") \cup Named(cd, "dependents") :
                  \E other \in Assembled : WorkloadOf(other) = w

\* Assembled from a -> a, a -> b and c -> b with nothing configured: a depends on
\* itself, and b, which is no source, has two dependents.
C20_Witness ==
    /\ pc = "done"
    /\ config.Workload = <<>>
    /\ DOMAIN adjacencyList = {"a", "c"}
    /\ adjacencyList["a"] = <<"a", "b">>
    /\ adjacencyList["c"] = <<"b">>
    /\ \E cd \in Assembled :
          /\ WorkloadOf(cd) = "b"
          /\ Named(cd, "dependents") = {"a", "c"}
          /\ Named(cd, "dependencies") = {}
    /\ \E cd \in Assembled :
          /\ WorkloadOf(cd) = "a"
          /\ "a" \in Named(cd, "dependents")
          /\ "a" \in Named(cd, "dependencies")
(***************************************************************************)
(* MongoDBRepository (mongodb.go).                                         *)
(***************************************************************************)
\* the loop `for _, dests := range adjacencyList { totalConnections += len(dests) }`
RECURSIVE TotalConnections(_, _)
TotalConnections(adj, S) ==
    IF S = {} THEN 0
    ELSE LET s == CHOOSE x \in S : TRUE
         IN  Len(adj[s]) + TotalConnections(adj, S \ {s})

\* A slip that counts the sources with a destination instead of the map's keys.
SourceCountNonEmptyOnly(adj) == Cardinality({s \in DOMAIN adj : adj[s] # <<>>})

\* SourceCount: len(adjacencyList)
SourceCount(adj) == Cardinality(DOMAIN adj)

\* primitive.NewObjectID(): an id no stored document has. An id generated for an
\* insert that failed is never stored, so the position in the collection serves.
NewObjectID(docs) == Len(docs) + 1

\* the AdjacencyListDocument SaveAdjacencyList builds; Timestamp is time.Now()
NewDocument(adj, docs, clock) ==
    [ID               |-> NewObjectID(docs),
     AdjacencyList    |-> adj,
     Timestamp        |-> clock,
     SourceCount      |-> SourceCount(adj),
     TotalConnections |-> TotalConnections(adj, DOMAIN adj)]

\* A slip that sorts ascending (Value: 1).
SortsFirstOldest(docs, i) == \A j \in 1..Len(docs) : docs[j].Timestamp >= docs[i].Timestamp

\* FindOne under SetSort({timestamp: -1}): document i may be the one returned when
\* no document has a greater timestamp. The store does not order documents whose
\* sort keys are equal, so any of them may come first.
SortsFirst(docs, i) == \A j \in 1..Len(docs) : docs[j].Timestamp <= docs[i].Timestamp

\* A slip that lacks the ErrNoDocuments branch.
GetLatestNoDocumentsIsError(docs, failed) ==
    IF failed \/ docs = <<>>
    THEN {[adjacencyList |-> <<>>, err |-> "failed to query MongoDB"]}
    ELSE {[adjacencyList |-> <<docs[i].AdjacencyList>>, err |-> ""] :
             i \in {k \in 1..Len(docs) : SortsFirst(docs, k)}}

\* A slip that answers every FindOne error as "no documents".
GetLatestFailureIsNoDocuments(docs, failed) ==
    IF failed \/ docs = <<>> THEN {[adjacencyList |-> <<>>, err |-> ""]}
    ELSE {[adjacencyList |-> <<docs[i].AdjacencyList>>, err |-> ""] :
             i \in {k \in 1..Len(docs) : SortsFirst(docs, k)}}

\* What GetLatestAdjacencyList may return, as [adjacencyList, err]: the nil map is
\* <<>> and a map m is <<m>>. `failed` is a FindOne error other than ErrNoDocuments.
GetLatestAdjacencyList(docs, failed) ==
    IF failed THEN {[adjacencyList |-> <<>>, err |-> "failed to query MongoDB"]}
    ELSE IF docs = <<>> THEN {[adjacencyList |-> <<>>, err |-> ""]}
    ELSE {[adjacencyList |-> <<docs[i].AdjacencyList>>, err |-> ""] :
             i \in {k \in 1..Len(docs) : SortsFirst(docs, k)}}

\* A slip that keeps one document per collection (a replace instead of an insert).
SaveAdjacencyListReplaces(adj, docs, clock, failed) ==
    IF failed
    THEN [docs |-> docs, id |-> 0, err |-> "failed to insert document"]
    ELSE [docs |-> <<NewDocument(adj, <<>>, clock)>>, id |-> 1, err |-> ""]

\* What SaveAdjacencyList may do, as [docs, id, err]: `failed` is an InsertOne
\* error, which returns primitive.NilObjectID (0) and leaves the collection alone.
SaveAdjacencyList(adj, docs, clock, failed) ==
    LET doc == NewDocument(adj, docs, clock)
    IN  IF failed
        THEN [docs |-> docs, id |-> 0, err |-> "failed to insert document"]
        ELSE [docs |-> Append(docs, doc), id |-> doc.ID, err |-> ""]

(***************************************************************************)
(* SpecSave: SaveAdjacencyList on every adjacency list.                    *)
(***************************************************************************)
InitSave ==
    /\ adjacencyList \in AdjacencyLists(Workloads3, MaxEdges)
    /\ store = <<>>
    /\ now \in 0..MaxClock
    /\ pc = "start"
    /\ config = NoConfig /\ last = Idle /\ results = <<>> /\ contextDefinitions = <<>>

Save ==
    /\ pc = "start"
    /\ store' = SaveAdjacencyList(adjacencyList, store, now, FALSE).docs
    /\ pc' = "done"
    /\ UNCHANGED <<config, now, last, results, adjacencyList, contextDefinitions>>

SaveFails ==
    /\ pc = "start"
    /\ store' = SaveAdjacencyList(adjacencyList, store, now, TRUE).docs
    /\ pc' = "failed"
    /\ UNCHANGED <<config, now, last, results, adjacencyList, contextDefinitions>>

NextSave == Save \/ SaveFails

SpecSave == InitSave /\ [][NextSave]_vars

(***************************************************************************)
(* C3: every persisted snapshot has totalConnectionCount equal to the sum  *)
(* of the sizes of its sources' destination lists and sourceCount equal to *)
(* the number of sources in its mapping, whatever adjacency list was       *)
(* saved; both are 0 for the empty one.                                    *)
(***************************************************************************)
\* The number of (source, position) pairs of an adjacency list.
DestinationEntries(adj) ==
    Cardinality({<<s, i>> \in (DOMAIN adj) \X (1..MaxEdges + 1) : i <= Len(adj[s])})

CountsMatch(doc) ==
    /\ doc.TotalConnections = DestinationEntries(doc.AdjacencyList)
    /\ doc.SourceCount = Cardinality({s \in Workloads3 : s \in DOMAIN doc.AdjacencyList})
    /\ DOMAIN doc.AdjacencyList = {} => doc.TotalConnections = 0 /\ doc.SourceCount = 0

C3_SnapshotCountsMatchMapping ==
    \A i \in 1..Len(store) :
        /\ CountsMatch(store[i])
        /\ pc = "done" /\ i = Len(store) => store[i].AdjacencyList = adjacencyList

\* Saved: an adjacency list with two sources that have destinations and a source
\* with none.
C3_Witness ==
    /\ pc = "done"
    /\ Len(store) = 1
    /\ DOMAIN adjacencyList = {"a", "b", "c"}
    /\ Len(adjacencyList["a"]) = 2
    /\ Len(adjacencyList["b"]) = 1
    /\ adjacencyList["c"] = <<>>
    /\ store[1].SourceCount = 3 /\ store[1].TotalConnections = 3

(***************************************************************************)
(* SpecRepo: sequences of SaveAdjacencyList and GetLatestAdjacencyList     *)
(* calls, one after the other, while the clock advances.  The clock never  *)
(* goes back, and two calls may read the same clock value (the stored      *)
(* timestamp has millisecond resolution).                                  *)
(***************************************************************************)
RepoAdjacencies == AdjacencyLists(Workloads2, 1)

InitRepo ==
    /\ store = <<>>
    /\ now = 0
    /\ last = [kind |-> "none", adjacencyList |-> <<>>, err |-> ""]   \* the last call: its kind and what it returned
    /\ config = NoConfig /\ results = <<>> /\ adjacencyList = EmptyAdjacency
    /\ contextDefinitions = <<>> /\ pc = "start"

Tick ==
    /\ now < MaxClock
    /\ now' = now + 1
    /\ UNCHANGED <<config, store, last, results, adjacencyList, contextDefinitions, pc>>

RepoSave(adj) ==
    /\ Len(store) < MaxStore
    /\ LET r == SaveAdjacencyList(adj, store, now, FALSE)
       IN  /\ store' = r.docs
           /\ last' = [kind |-> "save", adjacencyList |-> <<>>, err |-> r.err]
    /\ UNCHANGED <<config, now, results, adjacencyList, contextDefinitions, pc>>

RepoSaveFails(adj) ==
    /\ LET r == SaveAdjacencyList(adj, store, now, TRUE)
       IN  /\ store' = r.docs
           /\ last' = [kind |-> "save", adjacencyList |-> <<>>, err |-> r.err]
    /\ UNCHANGED <<config, now, results, adjacencyList, contextDefinitions, pc>>

RepoGetLatest ==
    /\ \E r \in GetLatestAdjacencyList(store, FALSE) :
          last' = [kind |-> "getLatest", adjacencyList |-> r.adjacencyList, err |-> r.err]
    /\ UNCHANGED <<config, store, now, results, adjacencyList, contextDefinitions, pc>>

RepoGetLatestFails ==
    /\ \E r \in GetLatestAdjacencyList(store, TRUE) :
          last' = [kind |-> "getLatest", adjacencyList |-> r.adjacencyList, err |-> r.err]
    /\ UNCHANGED <<config, store, now, results, adjacencyList, contextDefinitions, pc>>

NextRepo ==
    \/ Tick
    \/ \E adj \in RepoAdjacencies : RepoSave(adj)
    \/ \E adj \in RepoAdjacencies : RepoSaveFails(adj)
    \/ RepoGetLatest
    \/ RepoGetLatestFails

SpecRepo == InitRepo /\ [][NextRepo]_vars

(***************************************************************************)
(* C1: after any sequence of successful saves, getLatest returns the       *)
(* mapping of a snapshot whose createdAt is the greatest; when one         *)
(* snapshot's createdAt is greater than every other's, it returns exactly  *)
(* that snapshot's mapping.  createdAt never decreases from one save to    *)
(* the next, so after save(A1) and a later save(A2) (A2's createdAt the    *)
(* greater) getLatest returns A2's mapping.  Snapshots with equal          *)
(* createdAt are the subject of C13.                                       *)
(***************************************************************************)
GreatestCreatedAt(i) == \A j \in 1..Len(store) : store[j].Timestamp <= store[i].Timestamp

StrictlyGreatestCreatedAt(i) ==
    \A j \in 1..Len(store) : j # i => store[j].Timestamp < store[i].Timestamp

C1_GetLatestReturnsGreatestCreatedAt ==
    /\ \A i, j \in 1..Len(store) : i < j => store[i].Timestamp <= store[j].Timestamp
    /\ (last.kind = "getLatest" /\ last.err = "" /\ store # <<>>) =>
          /\ \E i \in 1..Len(store) :
                /\ GreatestCreatedAt(i)
                /\ last.adjacencyList = <<store[i].AdjacencyList>>
          /\ \A i \in 1..Len(store) :
                StrictlyGreatestCreatedAt(i) =>
                    last.adjacencyList = <<store[i].AdjacencyList>>
          /\ (Len(store) >= 2 /\ store[Len(store) - 1].Timestamp < store[Len(store)].Timestamp) =>
                last.adjacencyList = <<store[Len(store)].AdjacencyList>>

\* save(A1), a later save(A2) with another mapping, then getLatest returning A2's.
C1_Witness ==
    /\ last.kind = "getLatest" /\ last.err = ""
    /\ Len(store) = 2
    /\ store[1].Timestamp < store[2].Timestamp
    /\ store[1].AdjacencyList # store[2].AdjacencyList
    /\ last.adjacencyList = <<store[2].AdjacencyList>>


(***************************************************************************)
(* C13: when two or more persisted snapshots share the greatest createdAt, *)
(* getLatest breaks the tie deterministically: every getLatest on the same *)
(* store contents returns the mapping of the same snapshot, the one        *)
(* inserted last among those with the greatest createdAt.                  *)
(***************************************************************************)
\* The snapshot inserted last among those whose createdAt is the greatest.
LastInsertedOfGreatest ==
    CHOOSE i \in 1..Len(store) :
        /\ GreatestCreatedAt(i)
        /\ \A j \in 1..Len(store) : GreatestCreatedAt(j) => j <= i

C13_TiesBrokenByInsertionSequence ==
    (last.kind = "getLatest" /\ last.err = "" /\ store # <<>>) =>
        last.adjacencyList = <<store[LastInsertedOfGreatest].AdjacencyList>>
(***************************************************************************)
(* Timestamps (handlers.go: parseTimestamp, parseTimestampParams).         *)
(*                                                                         *)
(* A time.Time without a monotonic reading holds the seconds since year 1  *)
(* in an int64: time.Unix(sec, 0) stores sec + unixToInternal, computed in *)
(* int64 (Go's signed arithmetic wraps), Time.After compares the stored    *)
(* seconds and Time.Unix() subtracts the offset again.  The model keeps    *)
(* this arithmetic at IntBits bits.                                        *)
(***************************************************************************)
MinInt64 == -(2 ^ (IntBits - 1))
MaxInt64 == 2 ^ (IntBits - 1) - 1

\* int64 arithmetic: the two's-complement value of x
Wrap64(x) == ((x - MinInt64) % (2 ^ IntBits)) + MinInt64

\* The seconds from year 1 to 1970 (62135596800 in Go), at the model's width.
unixToInternal == 2 ^ (IntBits - 3)

\* time.Minute, in the seconds the model's clock counts
SecondsPerMinute == 60

\* The values of a timestamp query parameter: not given (c.Query returns ""), text
\* that is neither RFC3339 nor an integer, an RFC3339 instant (years 0000-9999, so
\* its seconds are far from the ends of int64), or a decimal int64.
TimestampStrings ==
    {[form |-> "empty",   sec |-> 0],
     [form |-> "garbage", sec |-> 0],
     [form |-> "rfc3339", sec |-> 1],
     [form |-> "unix",    sec |-> 0],
     [form |-> "unix",    sec |-> MaxInt64]}

NoTimestamp == [form |-> "empty", sec |-> 0]

\* time.Parse(time.RFC3339, ...): the instant's seconds since year 1 (no overflow
\* is possible for the years RFC3339 can express)
TimeOfInstant(sec) == [ext |-> sec + unixToInternal]

\* time.Unix(unixSec, 0)
TimeUnix(sec) == [ext |-> Wrap64(sec + unixToInternal)]

\* Time.Unix()
UnixOf(t) == Wrap64(t.ext - unixToInternal)

\* t.After(u)
After(t, u) == t.ext > u.ext

\* parseTimestamp, as [t, err]: t is <<>> (nil) or <<time>>
parseTimestamp(str) ==
    IF str.form = "rfc3339" THEN [t |-> <<TimeOfInstant(str.sec)>>, err |-> ""]
    ELSE IF str.form = "unix" THEN [t |-> <<TimeUnix(str.sec)>>, err |-> ""]
    ELSE [t |-> <<>>, err |-> "unable to parse timestamp"]

\* if fromTimestamp.After(*toTimestamp)
RangeInverted(from, to) == After(from, to)

\* parseTimestampParams, as [from, to, err]: from and to are <<>> (nil) or <<time>>
parseTimestampParams(fromStr, toStr, cfg, clock) ==
    LET none   == <<>>
        from   == IF fromStr.form # "empty" THEN parseTimestamp(fromStr) ELSE [t |-> none, err |-> ""]
        to     == IF toStr.form # "empty" THEN parseTimestamp(toStr) ELSE [t |-> none, err |-> ""]
    IN  IF fromStr.form # "empty" \/ toStr.form # "empty"
        THEN IF from.err # ""
             THEN [from |-> none, to |-> none, err |-> "invalid from_timestamp format"]
             ELSE IF to.err # ""
             THEN [from |-> none, to |-> none, err |-> "invalid to_timestamp format"]
             ELSE IF from.t # none /\ to.t # none
             THEN IF RangeInverted(from.t[1], to.t[1])
                  THEN [from |-> none, to |-> none,
                        err |-> "from_timestamp must be before to_timestamp"]
                  ELSE [from |-> from.t, to |-> to.t, err |-> ""]
             ELSE [from |-> none, to |-> none,
                   err |-> "both from_timestamp and to_timestamp must be provided together, or neither"]
        ELSE IF cfg.TimeWindowMinutes # none
        THEN [from |-> <<[ext |-> Wrap64(TimeUnix(clock).ext
                                           - cfg.TimeWindowMinutes[1] * SecondsPerMinute)]>>,
              to   |-> <<TimeUnix(clock)>>,
              err  |-> ""]
        ELSE [from |-> none, to |-> none, err |-> ""]

(***************************************************************************)
(* IstioConnector (istio_connector.go).                                    *)
(***************************************************************************)
\* One call to an external service, as the handlers' I/O is recorded: a backend
\* query (op "query" or "query_range") or a collection operation ("FindOne",
\* "InsertOne"), with how it ended.
Call(op, workloads, start, end, step, outcome) ==
    [op |-> op, workloads |-> workloads, start |-> start, end |-> end,
     step |-> step, outcome |-> outcome]

\* How a backend query may end: the request fails, the status is not 200, the
\* body does not decode, the decoded status is not "success", or a result arrives.
BackendFailures ==
    {"failed to execute request", "Prometheus returned status",
     "failed to decode response", "Prometheus query failed with status"}

BackendOutcomes == BackendFailures \cup {"success"}

\* The label names in the order fmt prints a map's keys (sorted).
LabelOrder == <<"destination_workload", "source_workload">>

\* A label value whose text holds a space and a colon: it reads as the end of one
\* printed entry and the start of another.
SpacedValue == "b source_workload:a"

\* The text of a label value, as the sequence of its pieces (a workload name is one
\* piece, and so are a space, a colon and a label name).
Text(v) ==
    IF v = SpacedValue THEN <<"b", " ", "source_workload", ":", "a">>
    ELSE IF v = "" THEN <<>>
    ELSE <<v>>

\* the entries "k1:v1 k2:v2" fmt prints for the labels of m among names, in order
RECURSIVE MetricKeyFrom(_, _)
MetricKeyFrom(m, names) ==
    IF names = <<>> THEN <<>>
    ELSE LET rest == MetricKeyFrom(m, Tail(names))
         IN  IF Head(names) \in DOMAIN m
             THEN <<Head(names), ":">> \o Text(m[Head(names)])
                     \o (IF rest = <<>> THEN <<>> ELSE <<" ">> \o rest)
             ELSE rest

\* metricKey := fmt.Sprintf("%v", r.Metric): the text "map[k1:v1 k2:v2]"
MetricKey(m) == <<"map[">> \o MetricKeyFrom(m, LabelOrder) \o <<"]">>

\* uniqueMetrics after the first loop: for every key the first series that has it
UniqueMetrics(series) ==
    {series[i] : i \in {k \in 1..Len(series) :
                          \A j \in 1..(k - 1) : MetricKey(series[j]) # MetricKey(series[k])}}

\* convertRangeToInstantResult: the entries kept, in an order range may visit
\* uniqueMetrics
convertRangeToInstantResult(series) == Orders(UniqueMetrics(series))

\* The series the backend may answer with (label sets, possibly repeated).
BackendSeries ==
    LET ab == [source_workload |-> "a", destination_workload |-> "b"]
        aa == [source_workload |-> "a", destination_workload |-> "a"]
        a  == [source_workload |-> "a"]
    IN  {<<>>, <<a, ab, ab>>, <<ab, aa>>}

\* queryRange and queryInstant, as the set of [result, err, calls] they may return:
\* one request to the backend, which ends in one of BackendOutcomes
queryRange(sourceWorkloads, from, to) ==
    LET call(outcome) == Call("query_range", sourceWorkloads, UnixOf(from), UnixOf(to),
                              "15s", outcome)
    IN  {[result |-> <<>>, err |-> f, calls |-> <<call(f)>>] : f \in BackendFailures}
        \cup UNION {{[result |-> r, err |-> "", calls |-> <<call("success")>>] :
                        r \in convertRangeToInstantResult(series)} : series \in BackendSeries}

\* A slip that sends the instant query a second time when the first attempt failed.
queryInstantRetries(sourceWorkloads) ==
    LET call(outcome) == Call("query", sourceWorkloads, 0, 0, "", outcome)
    IN  {[result |-> <<>>, err |-> g, calls |-> <<call(f), call(g)>>] :
            f \in BackendFailures, g \in BackendFailures}
        \cup {[result |-> series, err |-> "", calls |-> <<call(f), call("success")>>] :
                 f \in BackendFailures, series \in BackendSeries}
        \cup {[result |-> series, err |-> "", calls |-> <<call("success")>>] :
                 series \in BackendSeries}

queryInstant(sourceWorkloads) ==
    LET call(outcome) == Call("query", sourceWorkloads, 0, 0, "", outcome)
    IN  {[result |-> <<>>, err |-> f, calls |-> <<call(f)>>] : f \in BackendFailures}
        \cup {[result |-> series, err |-> "", calls |-> <<call("success")>>] :
                 series \in BackendSeries}

\* A slip that lacks the check of len(sourceWorkloads).
QueryMetricsUnchecked(sourceWorkloads, from, to) ==
    IF from # <<>> /\ to # <<>>
    THEN queryRange(sourceWorkloads, from[1], to[1])
    ELSE queryInstant(sourceWorkloads)

\* A slip that sends the instant query whatever times it is given.
QueryMetricsInstantOnly(sourceWorkloads, from, to) ==
    IF Len(sourceWorkloads) = 0
    THEN {[result |-> <<>>, err |-> "no source workloads provided", calls |-> <<>>]}
    ELSE queryInstant(sourceWorkloads)

\* QueryMetrics, as the set of [result, err, calls] it may return
QueryMetrics(sourceWorkloads, from, to) ==
    IF Len(sourceWorkloads) = 0
    THEN {[result |-> <<>>, err |-> "no source workloads provided", calls |-> <<>>]}
    ELSE IF from # <<>> /\ to # <<>>
    THEN queryRange(sourceWorkloads, from[1], to[1])
    ELSE queryInstant(sourceWorkloads)


(***************************************************************************)
(* SpecConvert: convertRangeToInstantResult on every ranged response of up *)
(* to MaxSeries series.  `results` is rangeResult.Data.Result (the label   *)
(* set of each series) and `last` holds instantResult.Data.Result.         *)
(***************************************************************************)
\* The label sets of the series of a ranged response.
RangeMetrics ==
    {[source_workload |-> "a", destination_workload |-> "b"],
     [source_workload |-> "a", destination_workload |-> "a"],
     [source_workload |-> "a"],
     [destination_workload |-> SpacedValue]}

InitConvert ==
    /\ results \in SeqsUpTo(RangeMetrics, MaxSeries)
    /\ last = [kind |-> "none", result |-> <<>>]
    /\ pc = "start"
    /\ config = NoConfig /\ store = <<>> /\ now = 0
    /\ adjacencyList = EmptyAdjacency /\ contextDefinitions = <<>>

Convert ==
    /\ pc = "start"
    /\ \E r \in convertRangeToInstantResult(results) :
          last' = [kind |-> "convert", result |-> r]
    /\ pc' = "done"
    /\ UNCHANGED <<config, store, now, results, adjacencyList, contextDefinitions>>

NextConvert == Convert

SpecConvert == InitConvert /\ [][NextConvert]_vars

(***************************************************************************)
(* C17: converting a ranged response yields exactly one entry per distinct *)
(* label set among the returned series: every entry is the label set of    *)
(* some series, series with the same label set give one entry, and series  *)
(* with different label sets give different entries, whatever characters   *)
(* the label values contain.                                               *)
(***************************************************************************)
C17_OneEntryPerDistinctLabelSet ==
    pc = "done" =>
        /\ \A i \in 1..Len(last.result) : last.result[i] \in Range(results)
        /\ \A m \in Range(results) :
              Cardinality({i \in 1..Len(last.result) : last.result[i] = m}) = 1
        /\ Len(last.result) = Cardinality(Range(results))
(***************************************************************************)
(* The handlers (handlers.go).  A handler runs as one action: what it      *)
(* received, the calls it made in order, and its response are kept in      *)
(* `last`, with the collection as it was when the request arrived.         *)
(***************************************************************************)
Request(kind, fromStr, toStr) == [kind |-> kind, from |-> fromStr, to |-> toStr]

\* c.JSON(status, ...) with what the handler did before it
Served(req, status, message, calls, latest, adj, cds, docs) ==
    [kind               |-> req.kind,
     from               |-> req.from,
     to                 |-> req.to,
     status             |-> status,
     message            |-> message,
     calls              |-> calls,
     latest             |-> latest,
     adjacencyList      |-> adj,
     contextDefinitions |-> cds,
     storeBefore        |-> docs]

NoLatest == [adjacencyList |-> <<>>, err |-> ""]

\* the handler from the call of SaveAdjacencyList on, for one result of the query
collectAndSave(req, q, insertFailed) ==
    LET adj   == ExtractAdjacencyList(q.result)
        saved == SaveAdjacencyList(adj, store, now, insertFailed)
        calls == q.calls \o <<Call("InsertOne", <<>>, 0, 0, "",
                                   IF insertFailed THEN "error" ELSE "ok")>>
    IN  IF saved.err # ""
        THEN [store |-> saved.docs,
              last  |-> Served(req, 500, "Failed to save to MongoDB", calls,
                               NoLatest, <<>>, <<>>, store)]
        ELSE [store |-> saved.docs,
              last  |-> Served(req, 200, "Metrics collected and saved to MongoDB",
                               calls, NoLatest, <<adj>>, <<>>, store)]

\* collectIstioMetricsHandler: the set of [store, last] it may end in, over what
\* the backend and the collection may answer
collectIstioMetricsHandler(fromStr, toStr) ==
    LET req    == Request("collect", fromStr, toStr)
        parsed == parseTimestampParams(fromStr, toStr, config, now)
    IN  IF Len(config.Workload) = 0
        THEN {[store |-> store,
               last  |-> Served(req, 400, "No source workloads configured", <<>>,
                                NoLatest, <<>>, <<>>, store)]}
        ELSE IF parsed.err # ""
        THEN {[store |-> store,
               last  |-> Served(req, 400, parsed.err, <<>>, NoLatest, <<>>, <<>>, store)]}
        ELSE UNION {
               IF q.err # ""
               THEN {[store |-> store,
                      last  |-> Served(req, 500, "Failed to query Prometheus", q.calls,
                                       NoLatest, <<>>, <<>>, store)]}
               ELSE {collectAndSave(req, q, insertFailed) : insertFailed \in BOOLEAN} :
               q \in QueryMetrics(config.Workload, parsed.from, parsed.to)}

\* getOCSPromptHandler: the set of [store, last] it may end in, over what the
\* collection may answer
getOCSPromptHandler ==
    LET req == Request("getContext", NoTimestamp, NoTimestamp)
    IN  UNION {UNION {
          LET find == Call("FindOne", <<>>, 0, 0, "",
                           IF readFailed THEN "error"
                           ELSE IF store = <<>> THEN "ErrNoDocuments" ELSE "ok")
              adj  == IF latest.adjacencyList = <<>> THEN EmptyAdjacency
                      ELSE latest.adjacencyList[1]
          IN  IF latest.err # ""
              THEN {[store |-> store,
                     last  |-> Served(req, 500, "Failed to retrieve topology from MongoDB",
                                      <<find>>, latest, <<>>, <<>>, store)]}
              ELSE {[store |-> store,
                     last  |-> Served(req, 200, "", <<find>>, latest, <<>>, cds, store)] :
                       cds \in BuildContextDefinitions(adj, config)} :
          latest \in GetLatestAdjacencyList(store, readFailed)} : readFailed \in BOOLEAN}

(***************************************************************************)
(* Spec: the server.  NewServer has loaded a configuration and connected;  *)
(* requests are then served one after the other while the clock advances.  *)
(***************************************************************************)
ServerConfigs ==
    {[Workload |-> w, Metrics |-> ConfigMetrics, Policy |-> ConfigPolicy,
      TimeWindowMinutes |-> m] :
        w \in {<<>>, <<"a", "b">>, <<"a", "a">>},
        m \in {<<>>, <<1>>}}

Init ==
    /\ config \in ServerConfigs
    /\ store = <<>>
    /\ now = 0
    /\ last = Served(Request("none", NoTimestamp, NoTimestamp), 0, "", <<>>, NoLatest,
                     <<>>, <<>>, <<>>)
    /\ results = <<>> /\ adjacencyList = EmptyAdjacency /\ contextDefinitions = <<>>
    /\ pc = "start"

CollectIstioMetrics ==
    /\ Len(store) < MaxStore
    /\ \E fromStr, toStr \in TimestampStrings :
          \E r \in collectIstioMetricsHandler(fromStr, toStr) :
              /\ store' = r.store
              /\ last' = r.last
    /\ UNCHANGED <<config, now, results, adjacencyList, contextDefinitions, pc>>

GetOCSPrompt ==
    /\ \E r \in getOCSPromptHandler :
          /\ store' = r.store
          /\ last' = r.last
    /\ UNCHANGED <<config, now, results, adjacencyList, contextDefinitions, pc>>

Next == Tick \/ CollectIstioMetrics \/ GetOCSPrompt

Spec == Init /\ [][Next]_vars

(***************************************************************************)
(* C2: when no snapshot has ever been persisted (and the collection        *)
(* answers), getLatest returns an empty mapping and no error, and          *)
(* getContext succeeds with exactly one context definition per configured  *)
(* workload.                                                               *)
(***************************************************************************)
C2_EmptyStoreIsNotAFailure ==
    (/\ last.kind = "getContext"
     /\ last.storeBefore = <<>>
     /\ last.calls[1].outcome # "error") =>
        /\ last.calls[1].outcome = "ErrNoDocuments"
        /\ last.latest.adjacencyList = <<>>
        /\ last.latest.err = ""
        /\ last.status = 200
        /\ {WorkloadOf(last.contextDefinitions[i]) : i \in 1..Len(last.contextDefinitions)}
              = {config.Workload[k] : k \in 1..Len(config.Workload)}
        /\ \A i, j \in 1..Len(last.contextDefinitions) :
              WorkloadOf(last.contextDefinitions[i]) = WorkloadOf(last.contextDefinitions[j])
                  => i = j

\* get_ocs_prompt served from the empty collection with two workloads configured.
C2_Witness ==
    /\ last.kind = "getContext"
    /\ store = <<>>
    /\ last.status = 200
    /\ config.Workload = <<"a", "b">>
    /\ Len(last.contextDefinitions) = 2

(***************************************************************************)
(* C5: a collect request whose time range is invalid (from_timestamp after *)
(* to_timestamp, a timestamp that does not parse, or only one of the two   *)
(* given) is answered with a validation error (400) before any query is    *)
(* sent to the metrics backend and before any snapshot is written, and the *)
(* collection is unchanged.                                                *)
(***************************************************************************)
Supplied(str) == str.form # "empty"

Unparsable(str) == str.form = "garbage"

\* The instant a parsable timestamp names, in seconds since 1970.
InstantOf(str) == str.sec

InvalidTimeRange(fromStr, toStr) ==
    \/ Supplied(fromStr) /\ Unparsable(fromStr)
    \/ Supplied(toStr) /\ Unparsable(toStr)
    \/ Supplied(fromStr) # Supplied(toStr)
    \/ /\ Supplied(fromStr) /\ Supplied(toStr)
       /\ ~Unparsable(fromStr) /\ ~Unparsable(toStr)
       /\ InstantOf(fromStr) > InstantOf(toStr)

C5_InvalidRangeRejectedBeforeAnyIO ==
    (last.kind = "collect" /\ InvalidTimeRange(last.from, last.to)) =>
        /\ last.status = 400
        /\ last.calls = <<>>
        /\ store = last.storeBefore


(***************************************************************************)
(* C11: over any sequence of collect and getContext requests the snapshot  *)
(* store is append-only.  A step changes the collection only by appending  *)
(* one snapshot at its end, and only a collect whose backend query and     *)
(* whose insert both succeeded does so; the snapshots already there keep   *)
(* their id, createdAt, mapping and counts and none is removed; a          *)
(* getContext request leaves the collection as it was.                     *)
(***************************************************************************)
QuerySucceeded(served) ==
    \E k \in 1..Len(served.calls) :
        /\ served.calls[k].op \in {"query", "query_range"}
        /\ served.calls[k].outcome = "success"

WriteSucceeded(served) ==
    \E k \in 1..Len(served.calls) :
        /\ served.calls[k].op = "InsertOne"
        /\ served.calls[k].outcome = "ok"

AppendsOneSnapshot ==
    /\ Len(store') = Len(store) + 1
    /\ SubSeq(store', 1, Len(store)) = store

C11_StoreIsAppendOnly ==
    [][/\ store' = store \/ AppendsOneSnapshot
       /\ AppendsOneSnapshot =>
             /\ last'.kind = "collect"
             /\ last'.status = 200
             /\ QuerySucceeded(last') /\ WriteSucceeded(last')
             /\ last'.storeBefore = store
       /\ last'.kind = "getContext" => store' = store
       /\ (last'.kind = "collect" /\ ~(QuerySucceeded(last') /\ WriteSucceeded(last')))
             => store' = store]_vars

\* Two snapshots were written by two collect requests and a getContext request was
\* then served from them.
C11_Witness ==
    /\ Len(store) = 2
    /\ store[1].ID # store[2].ID
    /\ last.kind = "getContext"
    /\ last.status = 200
    /\ last.storeBefore = store

(***************************************************************************)
(* SpecCollect: concurrent collect requests.  gin serves every request on  *)
(* its own goroutine; the handler holds no lock, so the steps of requests  *)
(* interleave freely: the backend query, the extraction, the building of   *)
(* the document (which reads the clock) and InsertOne.  `result` and       *)
(* `adjacencyList` are local variables of the handler, `doc` of            *)
(* SaveAdjacencyList; the Server's fields are only read.  Here `results`   *)
(* and `adjacencyList` map each request to its locals, pc to its position, *)
(* and `last` keeps what each request was answered by the backend, the     *)
(* document it built and the final GetLatestAdjacencyList.                 *)
(***************************************************************************)
Procs == 1..MaxProcs

\* A slip that keeps the handler's locals in one place shared by all requests.
LocalsOfShared(p) == 1

\* Where request p's local variables live: every call of the handler has its own.
LocalsOf(p) == p

CollectConfig ==
    [Workload |-> <<"a", "b">>, Metrics |-> ConfigMetrics, Policy |-> ConfigPolicy,
     TimeWindowMinutes |-> <<>>]

InitCollect ==
    /\ config = CollectConfig
    /\ store = <<>>
    /\ now = 0
    /\ results = [p \in Procs |-> <<>>]
    /\ adjacencyList = [p \in Procs |-> EmptyAdjacency]
    /\ pc = [p \in Procs |-> "query"]
    /\ last = [kind    |-> "none",
               latest  |-> NoLatest,
               queried |-> [p \in Procs |-> <<>>],
               doc     |-> [p \in Procs |-> <<>>],
               status  |-> [p \in Procs |-> 0]]
    /\ contextDefinitions = <<>>

\* result, err := s.istioConnector.QueryMetrics(...); a failure answers 500
CollectQuery(p) ==
    /\ pc[p] = "query"
    /\ \E q \in QueryMetrics(config.Workload, <<>>, <<>>) :
          IF q.err # ""
          THEN /\ pc' = [pc EXCEPT ![p] = "done"]
               /\ last' = [last EXCEPT !.status[p] = 500]
               /\ UNCHANGED results
          ELSE /\ pc' = [pc EXCEPT ![p] = "extract"]
               /\ results' = [results EXCEPT ![LocalsOf(p)] = q.result]
               /\ last' = [last EXCEPT !.queried[p] = q.result]
    /\ UNCHANGED <<config, store, now, adjacencyList, contextDefinitions>>

\* adjacencyList := ExtractAdjacencyList(result)
CollectExtract(p) ==
    /\ pc[p] = "extract"
    /\ adjacencyList' = [adjacencyList EXCEPT
                            ![LocalsOf(p)] = ExtractAdjacencyList(results[LocalsOf(p)])]
    /\ pc' = [pc EXCEPT ![p] = "build"]
    /\ UNCHANGED <<config, store, now, results, last, contextDefinitions>>

\* SaveAdjacencyList up to InsertOne: the counts and the document, with time.Now().
\* primitive.NewObjectID() never gives one id twice; the request's number stands
\* for it.
CollectBuild(p) ==
    /\ pc[p] = "build"
    /\ LET doc == [NewDocument(adjacencyList[LocalsOf(p)], store, now) EXCEPT !.ID = p]
       IN  last' = [last EXCEPT !.doc[p] = <<doc>>]
    /\ pc' = [pc EXCEPT ![p] = "insert"]
    /\ UNCHANGED <<config, store, now, results, adjacencyList, contextDefinitions>>

\* r.collection.InsertOne(ctx, doc), and the handler's answer
CollectInsert(p) ==
    /\ pc[p] = "insert"
    /\ \E failed \in BOOLEAN :
          IF failed
          THEN /\ last' = [last EXCEPT !.status[p] = 500]
               /\ UNCHANGED store
          ELSE /\ store' = Append(store, last.doc[p][1])
               /\ last' = [last EXCEPT !.status[p] = 200]
    /\ pc' = [pc EXCEPT ![p] = "done"]
    /\ UNCHANGED <<config, now, results, adjacencyList, contextDefinitions>>

AllComplete == \A p \in Procs : pc[p] = "done"

\* GetLatestAdjacencyList once every request has been answered
CollectGetLatest ==
    /\ AllComplete
    /\ \E failed \in BOOLEAN :
          \E r \in GetLatestAdjacencyList(store, failed) :
              last' = [last EXCEPT !.kind = "getLatest", !.latest = r]
    /\ UNCHANGED <<config, store, now, results, adjacencyList, contextDefinitions, pc>>

NextCollect ==
    \/ Tick
    \/ \E p \in Procs : CollectQuery(p)
    \/ \E p \in Procs : CollectExtract(p)
    \/ \E p \in Procs : CollectBuild(p)
    \/ \E p \in Procs : CollectInsert(p)
    \/ CollectGetLatest

SpecCollect == InitCollect /\ [][NextCollect]_vars

(***************************************************************************)
(* C12: under any interleaving of concurrent collect requests every        *)
(* persisted snapshot is well-formed on its own: it was written by one     *)
(* request, its mapping is the extract of the result the backend gave that *)
(* same request, and its counts match its mapping.  A getLatest made after *)
(* all the requests completed returns the whole mapping of one of the      *)
(* written snapshots (or the empty answer when none was written).          *)
(***************************************************************************)
WellFormedSnapshot(doc) ==
    /\ doc.ID \in Procs
    /\ last.doc[doc.ID] = <<doc>>
    /\ doc.AdjacencyList = ExtractAdjacencyList(last.queried[doc.ID])
    /\ CountsMatch(doc)

C12_ConcurrentCollectsWriteWholeSnapshots ==
    /\ \A i \in 1..Len(store) : WellFormedSnapshot(store[i])
    /\ \A i, j \in 1..Len(store) : store[i].ID = store[j].ID => i = j
    /\ (last.kind = "getLatest" /\ last.latest.err = "") =>
          IF store = <<>> THEN last.latest.adjacencyList = <<>>
          ELSE \E i \in 1..Len(store) :
                  last.latest.adjacencyList = <<store[i].AdjacencyList>>

\* Two requests whose steps interleaved: the backend gave them different results,
\* the one that built its document first inserted it last, both snapshots were
\* written, and getLatest was then served.
C12_Witness ==
    /\ AllComplete
    /\ Len(store) = 2
    /\ last.queried[store[1].ID] # last.queried[store[2].ID]
    /\ store[1].AdjacencyList # store[2].AdjacencyList
    /\ store[1].Timestamp > store[2].Timestamp
    /\ last.kind = "getLatest" /\ last.latest.err = ""
    /\ last.latest.adjacencyList = <<store[1].AdjacencyList>>

(***************************************************************************)
(* SpecQuery: the connector and the collect handler.  QueryMetrics is an   *)
(* exported method: besides the handler, which calls it with the           *)
(* configured workloads, any caller may call it with any workload list and *)
(* any pair of times (nil or not).  `results` keeps the last such call:    *)
(* its arguments, what it returned and the requests it sent.               *)
(***************************************************************************)
QueryWorkloads == {<<>>, <<"a">>}

\* fromTimestamp, toTimestamp *time.Time: nil or a time
QueryTimes == {<<>>, <<TimeUnix(1)>>}

Queried(sourceWorkloads, from, to, q) ==
    [called          |-> TRUE,
     sourceWorkloads |-> sourceWorkloads,
     from            |-> from,
     to              |-> to,
     result          |-> q.result,
     err             |-> q.err,
     calls           |-> q.calls]

InitQuery ==
    /\ config \in ServerConfigs
    /\ store = <<>>
    /\ now = 0
    /\ last = Served(Request("none", NoTimestamp, NoTimestamp), 0, "", <<>>, NoLatest,
                     <<>>, <<>>, <<>>)
    /\ results = [Queried(<<>>, <<>>, <<>>, [result |-> <<>>, err |-> "", calls |-> <<>>])
                     EXCEPT !.called = FALSE]
    /\ adjacencyList = EmptyAdjacency /\ contextDefinitions = <<>>
    /\ pc = "start"

QueryMetricsCall ==
    /\ \E sourceWorkloads \in QueryWorkloads :
          \E from, to \in QueryTimes :
              \E q \in QueryMetrics(sourceWorkloads, from, to) :
                  results' = Queried(sourceWorkloads, from, to, q)
    /\ UNCHANGED <<config, store, now, last, adjacencyList, contextDefinitions, pc>>

\* collectIstioMetricsHandler, served while the collection is empty (the handler
\* never reads the collection)
QueryCollect ==
    /\ store = <<>>
    /\ \E fromStr, toStr \in TimestampStrings :
          \E r \in collectIstioMetricsHandler(fromStr, toStr) :
              /\ store' = r.store
              /\ last' = r.last
    /\ UNCHANGED <<config, now, results, adjacencyList, contextDefinitions, pc>>

NextQuery == QueryMetricsCall \/ QueryCollect

SpecQuery == InitQuery /\ [][NextQuery]_vars

(***************************************************************************)
(* C14: QueryMetrics called with an empty workload list fails with an      *)
(* error without sending any request to the metrics backend; a collect     *)
(* request served when the configured workload list is empty is rejected   *)
(* (400) without any backend query and without any snapshot write.         *)
(***************************************************************************)
C14_EmptyWorkloadsRejectedWithoutIO ==
    /\ (results.called /\ Len(results.sourceWorkloads) = 0) =>
          /\ results.err # ""
          /\ results.result = <<>>
          /\ results.calls = <<>>
    /\ (last.kind = "collect" /\ Len(config.Workload) = 0) =>
          /\ last.status = 400
          /\ last.calls = <<>>
          /\ store = last.storeBefore
          /\ store = <<>>

\* QueryMetrics was called with no workloads and two times, and a collect request
\* was served with no workload configured.
C14_Witness ==
    /\ results.called
    /\ results.sourceWorkloads = <<>>
    /\ results.from # <<>> /\ results.to # <<>>
    /\ results.err = "no source workloads provided"
    /\ last.kind = "collect"
    /\ config.Workload = <<>>
    /\ last.status = 400

(***************************************************************************)
(* C15: a failure of the persistence layer while the latest snapshot is    *)
(* read is returned to the caller of getContext as an error (500) and no   *)
(* list of context definitions is produced.  Only the answer "no snapshot  *)
(* exists" is turned into the empty topology: a getContext that succeeds   *)
(* without a stored mapping was told so by the collection, which was       *)
(* empty.                                                                  *)
(***************************************************************************)
C15_StorageFailureIsNotAnEmptyTopology ==
    last.kind = "getContext" =>
        /\ last.calls[1].outcome = "error" =>
              /\ last.status = 500
              /\ last.latest.err # ""
              /\ last.contextDefinitions = <<>>
        /\ (last.status = 200 /\ last.latest.adjacencyList = <<>>) =>
              /\ last.calls[1].outcome = "ErrNoDocuments"
              /\ last.storeBefore = <<>>
        /\ last.status = 200 => last.calls[1].outcome # "error"

\* The read failed while a snapshot with an edge was stored.
C15_Witness ==
    /\ last.kind = "getContext"
    /\ last.calls[1].outcome = "error"
    /\ last.status = 500
    /\ store # <<>>
    /\ \E s \in DOMAIN store[1].AdjacencyList : store[1].AdjacencyList[s] # <<>>

(***************************************************************************)
(* C18: every collect request sends at most one query to the metrics       *)
(* backend and makes at most one snapshot write, the write only after the  *)
(* query succeeded.  When the query fails (request not executed, status    *)
(* not 200, body not decodable, status not "success") no snapshot is       *)
(* written and the error is returned; when the write fails the error is    *)
(* returned; nothing is tried a second time.                               *)
(***************************************************************************)
QueryCalls(served) ==
    {k \in 1..Len(served.calls) : served.calls[k].op \in {"query", "query_range"}}

WriteCalls(served) ==
    {k \in 1..Len(served.calls) : served.calls[k].op = "InsertOne"}

C18_OneQueryThenOneWriteNoRetry ==
    last.kind = "collect" =>
        /\ Cardinality(QueryCalls(last)) <= 1
        /\ Cardinality(WriteCalls(last)) <= 1
        /\ Len(last.calls) = Cardinality(QueryCalls(last)) + Cardinality(WriteCalls(last))
        /\ \A k \in WriteCalls(last) :
              /\ k = 2
              /\ 1 \in QueryCalls(last)
              /\ last.calls[1].outcome = "success"
        /\ \A k \in QueryCalls(last) :
              last.calls[k].outcome \in BackendFailures =>
                  /\ WriteCalls(last) = {}
                  /\ store = last.storeBefore
                  /\ last.status = 500
                  /\ last.message = "Failed to query Prometheus"
        /\ \A k \in WriteCalls(last) :
              last.calls[k].outcome = "error" =>
                  /\ store = last.storeBefore
                  /\ last.status = 500
                  /\ last.message = "Failed to save to MongoDB"
        /\ \A k \in WriteCalls(last) :
              last.calls[k].outcome = "ok" =>
                  /\ Len(store) = Len(last.storeBefore) + 1
                  /\ last.status = 200

\* A collect whose query succeeded and whose write failed, with a snapshot already
\* in the collection.
C18_Witness ==
    /\ last.kind = "collect"
    /\ Len(last.calls) = 2
    /\ last.calls[1].outcome = "success"
    /\ last.calls[2].op = "InsertOne" /\ last.calls[2].outcome = "error"
    /\ last.status = 500
    /\ Len(store) = 1

(***************************************************************************)
(* C19: the form of the query is chosen by the time range alone.  For a    *)
(* collect request served with workloads configured: when both timestamps  *)
(* are supplied and the request is not rejected, one ranged query is sent  *)
(* with start and end the instants supplied (in whole seconds) and step    *)
(* 15s; when no timestamp is supplied and time_window_minutes is           *)
(* configured, one ranged query is sent over [now - window, now] with step *)
(* 15s; when no timestamp is supplied and no window is configured, one     *)
(* instant query is sent.  Never are both forms used.                      *)
(***************************************************************************)
\* A step that serves a collect request (Tick moves the clock and the other handler
\* leaves another kind in `last`).
ServesCollect == last'.kind = "collect" /\ now' = now

RangedOver(c, start, end) ==
    c.op = "query_range" /\ c.start = start /\ c.end = end /\ c.step = "15s"

=============================================================================
